---- MODULE Spec2Model ----
(***************************************************************************)
(* State-machine model of the two GLFW/OpenGL bootstrap programs of the    *)
(* repository:                                                             *)
(*   "Snek"  src/src/main.cpp   (immediate-mode quad)                      *)
(*   "Game"  src/Game/main.cpp  (shader variant, triangles from a VBO)     *)
(* One behaviour is one run of one of the programs.  `pc` is the position  *)
(* of main(); every outcome of an external call (GLFW, GLAD, the GL        *)
(* driver, the window system) is an input chosen with \E.                  *)
(***************************************************************************)
EXTENDS Integers, Sequences, FiniteSets, TLC

VARIABLES
    variant,        \* which program runs: "Snek" or "Game"
    pc,             \* position of main()
    exitStatus,     \* process exit status; meaningful when pc = "exited"
    errlog,         \* messages written to stdout/stderr
    glfwUp,         \* glfwInit succeeded and glfwTerminate not yet called
    terminated,     \* glfwTerminate has been called
    window,         \* the GLFWwindow: [exists, width, height, title]
    shouldClose,    \* the window's close flag (glfwWindowShouldClose)
    ctxCurrent,     \* the window's GL context is current on this thread
    glLoaded,       \* gladLoadGLLoader resolved the GL entry points
    keyCallbackSet, \* glfwSetKeyCallback done
    resizeCallbackSet, \* glfwSetFramebufferSizeCallback done
    clearColor,     \* GL clear colour, RGBA in tenths
    viewport,       \* GL viewport <<x, y, width, height>>
    depthTest,      \* GL_DEPTH_TEST enabled
    shaders,        \* Game: compile/link state and object names
    buffers,        \* Game: VAO/VBO/EBO names, uploaded sizes, attribute 0
    created,        \* GL objects in creation order
    released,       \* GL objects in deletion order
    cleanupIdx,     \* number of delete calls of the shutdown block done
    lastDraw,       \* arguments of the most recent glDrawArrays
    programInUse,   \* name passed to the most recent glUseProgram
    clearCount,     \* number of glClear calls
    drawCount,      \* number of draw calls
    loopChecks,     \* number of evaluations of the loop condition
    evCount,        \* events dispatched by the current glfwPollEvents
    \* ---- observation (history) variables, never read by the program ----
    initCalls,      \* how often each initialisation call was made
    initFailure,    \* which initialisation step failed, or "none"
    earlyGL,        \* GL commands issued before context current + GL loaded
    firstCheck,     \* close flag seen by the first loop-condition check
    lastEvent,      \* the event dispatched most recently
    lastDirPress,   \* the directional key pressed most recently
    lastResize,     \* the size of the most recent resize event
    escPressed,     \* an Escape press has been dispatched
    scenarioPos     \* progress of the directional presses along ScenarioKeys

vars == <<variant, pc, exitStatus, errlog, glfwUp, terminated, window,
          shouldClose, ctxCurrent, glLoaded, keyCallbackSet, resizeCallbackSet,
          clearColor, viewport, depthTest, shaders, buffers, created, released,
          cleanupIdx, lastDraw, programInUse, clearCount, drawCount, loopChecks,
          evCount, initCalls, initFailure, earlyGL, firstCheck, lastEvent,
          lastDirPress, lastResize, escPressed, scenarioPos>>

startVars == <<glfwUp, terminated, window, shouldClose, ctxCurrent, glLoaded,
               keyCallbackSet, viewport>>
inputVars == <<clearColor, lastEvent, lastDirPress, lastResize, escPressed,
               scenarioPos, evCount>>
gpuVars == <<shaders, buffers, created, released, cleanupIdx, lastDraw,
             programInUse>>
frameVars == <<clearCount, drawCount, loopChecks, firstCheck>>

-----------------------------------------------------------------------------
(* Bounds of the model *)

\* frames (glClear calls) a behaviour may run
MaxFrames == 2
\* events one glfwPollEvents call may dispatch
MaxEvents == 2

-----------------------------------------------------------------------------
(* Program constants *)

Variants == {"Snek", "Game"}

SCR_WIDTH == 640
SCR_HEIGHT == 480

WindowTitle(v) == IF v = "Game" THEN "2D Game" ELSE "Snek"

EXIT_SUCCESS == 0
EXIT_FAILURE == 1
\* the value of `return - 1;`
MinusOne == -1
\* the width of a process exit status
StatusModulus == 256

\* exit status the parent sees for a value returned from main / passed to exit
ExitCode(n) == n % StatusModulus

Keys == {"ESCAPE", "UP", "DOWN", "LEFT", "RIGHT", "SPACE"}
DirectionalKeys == {"UP", "DOWN", "LEFT", "RIGHT"}
Actions == {"PRESS", "RELEASE", "REPEAT"}

\* framebuffer sizes the window system may report
ResizeSizes == {<<800, 600>>, <<320, 240>>}

\* the end-to-end key scenario of the specification
ScenarioKeys == <<"UP", "DOWN", "RIGHT">>

\* GL initial clear colour
DefaultClearColor == <<0, 0, 0, 0>>

NoWindow == [exists |-> FALSE, width |-> 0, height |-> 0, title |-> ""]
NoEvent == [kind |-> "none", key |-> "", action |-> "", size |-> <<0, 0>>]
NoDraw == [first |-> 0, count |-> 0]

-----------------------------------------------------------------------------
(* Pure helpers *)

\* the RGBA tuple (in tenths) each directional key passes to glClearColor
KeyColor(v, key) ==
    IF v = "Game"
    THEN CASE key = "UP"    -> <<4, 0, 0, 0>>
           [] key = "DOWN"  -> <<0, 4, 0, 0>>
           [] key = "LEFT"  -> <<0, 0, 4, 0>>
           [] key = "RIGHT" -> <<4, 4, 0, 0>>
    ELSE CASE key = "UP"    -> <<10, 0, 0, 0>>
           [] key = "DOWN"  -> <<0, 10, 0, 0>>
           [] key = "LEFT"  -> <<0, 0, 10, 0>>
           [] key = "RIGHT" -> <<10, 10, 0, 0>>

\* a handler that reacts to every action but release
KeyCallbackColorOnHeld(v, key, action, cur) ==
    IF key \in DirectionalKeys /\ action # "RELEASE" THEN KeyColor(v, key) ELSE cur

\* key_callback, the four glClearColor branches: the clear colour after the
\* event, given the clear colour `cur` before it
KeyCallbackColor(v, key, action, cur) ==
    LET c1 == IF key = "UP" /\ action = "PRESS" THEN KeyColor(v, "UP") ELSE cur
        c2 == IF key = "DOWN" /\ action = "PRESS" THEN KeyColor(v, "DOWN") ELSE c1
        c3 == IF key = "LEFT" /\ action = "PRESS" THEN KeyColor(v, "LEFT") ELSE c2
        c4 == IF key = "RIGHT" /\ action = "PRESS" THEN KeyColor(v, "RIGHT") ELSE c3
    IN  c4

\* a handler that stores the test's result in the flag instead of setting it
KeyCallbackCloseAssign(key, action, flag) ==
    key = "ESCAPE" /\ action = "PRESS"

\* a handler that forgets to test the action
KeyCallbackCloseAnyAction(key, action, flag) ==
    IF key = "ESCAPE" THEN TRUE ELSE flag

\* key_callback, the Escape branch: the close flag after the event
KeyCallbackClose(key, action, flag) ==
    IF key = "ESCAPE" /\ action = "PRESS" THEN TRUE ELSE flag

\* whether key_callback issues a glClearColor command for the event
KeyCallbackIssuesGL(key, action) ==
    key \in DirectionalKeys /\ action = "PRESS"

\* a handler that passes height and width in the wrong order
FramebufferSizeSwapped(width, height) == <<0, 0, height, width>>

\* framebuffer_size_callback: the arguments of its glViewport call
FramebufferSizeCallback(width, height) == <<0, 0, width, height>>

\* a loop condition that lost its negation
LoopContinuesInverted(flag) == flag

\* the render loop's condition, while (!glfwWindowShouldClose(window))
LoopContinues(flag) == ~flag

\* a failure path that reports success
WindowFailStatusZero(v) == ExitCode(EXIT_SUCCESS)

\* exit status when glfwCreateWindow fails: `return - 1` in Game,
\* exit(EXIT_FAILURE) in Snek
WindowFailStatus(v) ==
    IF v = "Game" THEN ExitCode(MinusOne) ELSE ExitCode(EXIT_FAILURE)

\* smallest object name the GL has not handed out yet
FreshName(used) == CHOOSE n \in 1..(Cardinality(used) + 1) : n \notin used

\* earlyGL after issuing the GL commands `cmds` in the current state
IssueGL(cmds) ==
    IF ctxCurrent /\ glLoaded THEN earlyGL ELSE earlyGL \cup cmds

\* the directional-press history along ScenarioKeys: position reached, or
\* Len(ScenarioKeys) + 1 once the presses have left the scenario
ScenarioStep(pos, key) ==
    IF pos < Len(ScenarioKeys) /\ ScenarioKeys[pos + 1] = key
    THEN pos + 1
    ELSE Len(ScenarioKeys) + 1

-----------------------------------------------------------------------------
(* Initial state: the process has just entered main() *)

NoShaders == [vertexShader |-> 0, fragmentShader |-> 0, shaderProgram |-> 0,
              vs |-> "none", fs |-> "none", link |-> "none", names |-> {}]
NoAttrib == [enabled |-> FALSE, buffer |-> 0, size |-> 0, stride |-> 0,
             offset |-> 0]
NoBuffers == [VAO |-> 0, VBO |-> 0, EBO |-> 0, vboBytes |-> 0, eboBytes |-> 0,
              boundVAO |-> 0, boundArray |-> 0, attrib0 |-> NoAttrib]

Init ==
    /\ variant \in Variants
    /\ pc = "glfwInit"
    /\ exitStatus = 0
    /\ errlog = {}
    /\ glfwUp = FALSE
    /\ terminated = FALSE
    /\ window = NoWindow
    /\ shouldClose = FALSE
    /\ ctxCurrent = FALSE
    /\ glLoaded = FALSE
    /\ keyCallbackSet = FALSE
    /\ resizeCallbackSet = FALSE
    /\ clearColor = DefaultClearColor
    /\ viewport = <<0, 0, 0, 0>>
    /\ depthTest = FALSE
    /\ shaders = NoShaders
    /\ buffers = NoBuffers
    /\ created = <<>>
    /\ released = <<>>
    /\ cleanupIdx = 0
    /\ lastDraw = NoDraw
    /\ programInUse = 0
    /\ clearCount = 0
    /\ drawCount = 0
    /\ loopChecks = 0
    /\ evCount = 0
    /\ initCalls = [glfwInit |-> 0, glfwCreateWindow |-> 0, gladLoadGLLoader |-> 0]
    /\ initFailure = "none"
    /\ earlyGL = {}
    /\ firstCheck = "none"
    /\ lastEvent = NoEvent
    /\ lastDirPress = "none"
    /\ lastResize = <<0, 0>>
    /\ escPressed = FALSE
    /\ scenarioPos = 0

-----------------------------------------------------------------------------
(* Start-up, common to both programs *)

\* glfwInit() and, on success, the three glfwWindowHint calls
GlfwInit ==
    /\ pc = "glfwInit"
    /\ initCalls' = [initCalls EXCEPT !.glfwInit = @ + 1]
    /\ \E ok \in BOOLEAN :
         IF ok
         THEN /\ glfwUp' = TRUE
              /\ pc' = IF variant = "Snek" THEN "glEnable" ELSE "createWindow"
              /\ UNCHANGED <<exitStatus, errlog, initFailure>>
         ELSE /\ errlog' = errlog \cup {"Unable to initialize GLFW!"}
              /\ exitStatus' = ExitCode(EXIT_FAILURE)
              /\ initFailure' = "BackendInitFailed"
              /\ pc' = "exited"
              /\ UNCHANGED glfwUp
    /\ UNCHANGED <<variant, terminated, window, shouldClose, ctxCurrent,
                   glLoaded, keyCallbackSet, resizeCallbackSet, viewport,
                   depthTest, earlyGL>>
    /\ UNCHANGED <<inputVars, gpuVars, frameVars>>

\* Snek only: glEnable(GL_DEPTH_TEST) between the window hints and
\* glfwCreateWindow.  No context exists and GLAD has resolved nothing, so the
\* call goes through an unresolved entry point: the process either dies there
\* or the call returns without effect.
GlEnableDepthTest ==
    /\ pc = "glEnable"
    /\ earlyGL' = IssueGL({"glEnable"})
    /\ \E survives \in BOOLEAN :
         IF survives
         THEN /\ pc' = "createWindow"
              /\ depthTest' = (ctxCurrent /\ glLoaded)
         ELSE /\ pc' = "crashed"
              /\ UNCHANGED depthTest
    /\ UNCHANGED <<variant, exitStatus, errlog, resizeCallbackSet, initCalls,
                   initFailure>>
    /\ UNCHANGED <<startVars, inputVars, gpuVars, frameVars>>

\* glfwCreateWindow and its NULL check
CreateWindow ==
    /\ pc = "createWindow"
    /\ initCalls' = [initCalls EXCEPT !.glfwCreateWindow = @ + 1]
    /\ \E ok \in BOOLEAN :
         IF ok
         THEN /\ window' = [exists |-> TRUE, width |-> SCR_WIDTH,
                            height |-> SCR_HEIGHT, title |-> WindowTitle(variant)]
              /\ pc' = "makeCurrent"
              /\ UNCHANGED <<exitStatus, errlog, initFailure, glfwUp, terminated>>
         ELSE /\ errlog' = errlog \cup
                     {"Error: Window or OpenGL context creation failed!"}
              /\ glfwUp' = FALSE
              /\ terminated' = TRUE
              /\ exitStatus' = WindowFailStatus(variant)
              /\ initFailure' = "WindowCreationFailed"
              /\ pc' = "exited"
              /\ UNCHANGED window
    /\ UNCHANGED <<variant, shouldClose, ctxCurrent, glLoaded, keyCallbackSet,
                   resizeCallbackSet, viewport, depthTest, earlyGL>>
    /\ UNCHANGED <<inputVars, gpuVars, frameVars>>

\* glfwMakeContextCurrent, glfwSetErrorCallback, glfwSetKeyCallback (the two
\* programs make the three calls in different orders).  A context made
\* current for the first time gets the window's size as its viewport.
MakeContextCurrent ==
    /\ pc = "makeCurrent"
    /\ ctxCurrent' = TRUE
    /\ keyCallbackSet' = TRUE
    /\ viewport' = <<0, 0, window.width, window.height>>
    /\ pc' = "gladLoad"
    /\ UNCHANGED <<variant, exitStatus, errlog, glfwUp, terminated, window,
                   shouldClose, glLoaded, resizeCallbackSet, depthTest,
                   initCalls, initFailure, earlyGL>>
    /\ UNCHANGED <<inputVars, gpuVars, frameVars>>

\* gladLoadGLLoader and its check; the failure path calls exit() without
\* glfwTerminate
GladLoad ==
    /\ pc = "gladLoad"
    /\ initCalls' = [initCalls EXCEPT !.gladLoadGLLoader = @ + 1]
    /\ \E ok \in BOOLEAN :
         IF ok
         THEN /\ glLoaded' = TRUE
              /\ pc' = IF variant = "Game" THEN "vertexShader" ELSE "setResizeCallback"
              /\ UNCHANGED <<exitStatus, errlog, initFailure>>
         ELSE /\ errlog' = errlog \cup {"Error: Failed to initialize GLAD"}
              /\ exitStatus' = ExitCode(EXIT_FAILURE)
              /\ initFailure' = "GraphicsLoadFailed"
              /\ pc' = "exited"
              /\ UNCHANGED glLoaded
    /\ UNCHANGED <<variant, glfwUp, terminated, window, shouldClose, ctxCurrent,
                   keyCallbackSet, resizeCallbackSet, viewport, depthTest,
                   earlyGL>>
    /\ UNCHANGED <<inputVars, gpuVars, frameVars>>

-----------------------------------------------------------------------------
(* Game only: shaders, geometry and buffers created before the loop *)

SizeofFloat == 4
SizeofUInt == 4

\* float vertices[], in hundredths: nine vertices of three coordinates
Vertices == <<  0,  25, 0,   -15, -25, 0,   15, -25, 0,
               30,  25, 0,    15, -25, 0,   45, -25, 0,
               15,  75, 0,     0,  25, 0,   30,  25, 0 >>

\* unsigned int indices[]
Indices == <<0, 1, 3, 1, 3, 2>>

\* sizeof(vertices), sizeof(indices)
SizeofVertices == Len(Vertices) * SizeofFloat
SizeofIndices == Len(Indices) * SizeofUInt

\* components per vertex of attribute 0 in glVertexAttribPointer
AttribComponents == 3

\* a draw call asking for one vertex more than was uploaded
DrawArraysCountOneMore == 9 + 1

\* the vertex count passed to glDrawArrays in the loop
DrawArraysCount == 9

\* a shutdown block that deletes the vertex buffer twice and leaks the
\* element buffer
ReleaseOrderTwice == <<"VAO", "VBO", "VBO", "shaderProgram">>

\* the delete calls after the loop, in source order
ReleaseOrder == <<"VAO", "VBO", "EBO", "shaderProgram">>

\* vertex shader: glCreateShader, glShaderSource, glCompileShader, status check
CompileVertexShader ==
    /\ pc = "vertexShader"
    /\ earlyGL' = IssueGL({"glCreateShader", "glCompileShader"})
    /\ \E ok \in BOOLEAN :
         LET name == FreshName(shaders.names) IN
         /\ shaders' = [shaders EXCEPT !.vertexShader = name,
                                       !.names = @ \cup {name},
                                       !.vs = IF ok THEN "ok" ELSE "failed"]
         /\ errlog' = IF ok THEN errlog
                      ELSE errlog \cup {"ERROR::SHADER::VERTEX::COMPILATION_FAILED"}
    /\ created' = Append(created, "vertexShader")
    /\ pc' = "fragmentShader"
    /\ UNCHANGED <<variant, exitStatus, resizeCallbackSet, depthTest, initCalls,
                   initFailure, buffers, released, cleanupIdx, lastDraw,
                   programInUse>>
    /\ UNCHANGED <<startVars, inputVars, frameVars>>

\* fragment shader: the same four steps
CompileFragmentShader ==
    /\ pc = "fragmentShader"
    /\ earlyGL' = IssueGL({"glCreateShader", "glCompileShader"})
    /\ \E ok \in BOOLEAN :
         LET name == FreshName(shaders.names) IN
         /\ shaders' = [shaders EXCEPT !.fragmentShader = name,
                                       !.names = @ \cup {name},
                                       !.fs = IF ok THEN "ok" ELSE "failed"]
         /\ errlog' = IF ok THEN errlog
                      ELSE errlog \cup {"ERROR::SHADER::FRAGMENT::COMPILATION_FAILED"}
    /\ created' = Append(created, "fragmentShader")
    /\ pc' = "linkProgram"
    /\ UNCHANGED <<variant, exitStatus, resizeCallbackSet, depthTest, initCalls,
                   initFailure, buffers, released, cleanupIdx, lastDraw,
                   programInUse>>
    /\ UNCHANGED <<startVars, inputVars, frameVars>>

\* glCreateProgram, two glAttachShader, glLinkProgram, status check.  A
\* program with a shader that did not compile cannot link.
LinkProgram ==
    /\ pc = "linkProgram"
    /\ earlyGL' = IssueGL({"glCreateProgram", "glLinkProgram"})
    /\ \E ok \in (IF shaders.vs = "ok" /\ shaders.fs = "ok" THEN BOOLEAN ELSE {FALSE}) :
         LET name == FreshName(shaders.names) IN
         /\ shaders' = [shaders EXCEPT !.shaderProgram = name,
                                       !.names = @ \cup {name},
                                       !.link = IF ok THEN "ok" ELSE "failed"]
         /\ errlog' = IF ok THEN errlog
                      ELSE errlog \cup {"ERROR::SHADER::PROGRAM::LINKING_FAILED"}
    /\ created' = Append(created, "shaderProgram")
    /\ pc' = "deleteShaders"
    /\ UNCHANGED <<variant, exitStatus, resizeCallbackSet, depthTest, initCalls,
                   initFailure, buffers, released, cleanupIdx, lastDraw,
                   programInUse>>
    /\ UNCHANGED <<startVars, inputVars, frameVars>>

\* glDeleteShader(vertexShader); glDeleteShader(fragmentShader);
DeleteShaders ==
    /\ pc = "deleteShaders"
    /\ earlyGL' = IssueGL({"glDeleteShader"})
    /\ released' = released \o <<"vertexShader", "fragmentShader">>
    /\ pc' = "genObjects"
    /\ UNCHANGED <<variant, exitStatus, errlog, resizeCallbackSet, depthTest,
                   initCalls, initFailure, shaders, buffers, created, cleanupIdx,
                   lastDraw, programInUse>>
    /\ UNCHANGED <<startVars, inputVars, frameVars>>

\* glGenVertexArrays(1, &VAO); glGenBuffers(1, &VBO); glGenBuffers(1, &EBO);
GenObjects ==
    /\ pc = "genObjects"
    /\ earlyGL' = IssueGL({"glGenVertexArrays", "glGenBuffers"})
    /\ LET vao == FreshName({})
           vbo == FreshName({})
           ebo == FreshName({vbo})
       IN  buffers' = [buffers EXCEPT !.VAO = vao, !.VBO = vbo, !.EBO = ebo]
    /\ created' = created \o <<"VAO", "VBO", "EBO">>
    /\ pc' = "uploadData"
    /\ UNCHANGED <<variant, exitStatus, errlog, resizeCallbackSet, depthTest,
                   initCalls, initFailure, shaders, released, cleanupIdx,
                   lastDraw, programInUse>>
    /\ UNCHANGED <<startVars, inputVars, frameVars>>

\* glBindVertexArray(VAO); bind VBO and upload vertices; bind EBO and upload
\* indices
UploadData ==
    /\ pc = "uploadData"
    /\ earlyGL' = IssueGL({"glBindVertexArray", "glBindBuffer", "glBufferData"})
    /\ buffers' = [buffers EXCEPT !.boundVAO = buffers.VAO,
                                  !.boundArray = buffers.VBO,
                                  !.vboBytes = SizeofVertices,
                                  !.eboBytes = SizeofIndices]
    /\ pc' = "attribPointer"
    /\ UNCHANGED <<variant, exitStatus, errlog, resizeCallbackSet, depthTest,
                   initCalls, initFailure, shaders, created, released,
                   cleanupIdx, lastDraw, programInUse>>
    /\ UNCHANGED <<startVars, inputVars, frameVars>>

\* glVertexAttribPointer(0, 3, GL_FLOAT, GL_FALSE, 3 * sizeof(float), 0);
\* glEnableVertexAttribArray(0); then unbind the array buffer and the VAO
ConfigureAttrib ==
    /\ pc = "attribPointer"
    /\ earlyGL' = IssueGL({"glVertexAttribPointer", "glEnableVertexAttribArray",
                           "glBindBuffer", "glBindVertexArray"})
    /\ buffers' = [buffers EXCEPT
                     !.attrib0 = [enabled |-> TRUE,
                                  buffer |-> buffers.boundArray,
                                  size |-> AttribComponents,
                                  stride |-> AttribComponents * SizeofFloat,
                                  offset |-> 0],
                     !.boundArray = 0,
                     !.boundVAO = 0]
    /\ pc' = "setResizeCallback"
    /\ UNCHANGED <<variant, exitStatus, errlog, resizeCallbackSet, depthTest,
                   initCalls, initFailure, shaders, created, released,
                   cleanupIdx, lastDraw, programInUse>>
    /\ UNCHANGED <<startVars, inputVars, frameVars>>

\* glfwSetFramebufferSizeCallback(window, framebuffer_size_callback)
SetResizeCallback ==
    /\ pc = "setResizeCallback"
    /\ resizeCallbackSet' = TRUE
    /\ pc' = "loopCheck"
    /\ UNCHANGED <<variant, exitStatus, errlog, depthTest, initCalls,
                   initFailure, earlyGL>>
    /\ UNCHANGED <<startVars, inputVars, gpuVars, frameVars>>

-----------------------------------------------------------------------------
(* The render loop *)

\* while (!glfwWindowShouldClose(window)): one evaluation of the condition
LoopCheck ==
    /\ pc = "loopCheck"
    /\ loopChecks' = loopChecks + 1
    /\ firstCheck' = IF loopChecks = 0
                     THEN (IF shouldClose THEN "closed" ELSE "open")
                     ELSE firstCheck
    /\ IF LoopContinues(shouldClose)
       THEN /\ clearCount < MaxFrames
            /\ pc' = "clear"
       ELSE pc' = IF variant = "Game" THEN "cleanup" ELSE "terminate"
    /\ UNCHANGED <<variant, exitStatus, errlog, resizeCallbackSet, depthTest,
                   initCalls, initFailure, earlyGL, clearCount, drawCount>>
    /\ UNCHANGED <<startVars, inputVars, gpuVars>>

\* glClear(GL_COLOR_BUFFER_BIT)
Clear ==
    /\ pc = "clear"
    /\ earlyGL' = IssueGL({"glClear"})
    /\ clearCount' = clearCount + 1
    /\ pc' = "draw"
    /\ UNCHANGED <<variant, exitStatus, errlog, resizeCallbackSet, depthTest,
                   initCalls, initFailure, drawCount, loopChecks, firstCheck>>
    /\ UNCHANGED <<startVars, inputVars, gpuVars>>

\* Game: glUseProgram(shaderProgram); glBindVertexArray(VAO);
\* glDrawArrays(GL_TRIANGLES, 0, 9);
DrawGame ==
    /\ pc = "draw"
    /\ variant = "Game"
    /\ earlyGL' = IssueGL({"glUseProgram", "glBindVertexArray", "glDrawArrays"})
    /\ programInUse' = shaders.shaderProgram
    /\ buffers' = [buffers EXCEPT !.boundVAO = buffers.VAO]
    /\ lastDraw' = [first |-> 0, count |-> DrawArraysCount]
    /\ drawCount' = drawCount + 1
    /\ pc' = "swap"
    /\ UNCHANGED <<variant, exitStatus, errlog, resizeCallbackSet, depthTest,
                   initCalls, initFailure, shaders, created, released,
                   cleanupIdx, clearCount, loopChecks, firstCheck>>
    /\ UNCHANGED <<startVars, inputVars>>

\* Snek: glBegin(GL_QUADS); four glVertex2f; glEnd();
DrawSnek ==
    /\ pc = "draw"
    /\ variant = "Snek"
    /\ earlyGL' = IssueGL({"glBegin", "glVertex2f", "glEnd"})
    /\ drawCount' = drawCount + 1
    /\ pc' = "swap"
    /\ UNCHANGED <<variant, exitStatus, errlog, resizeCallbackSet, depthTest,
                   initCalls, initFailure, clearCount, loopChecks, firstCheck>>
    /\ UNCHANGED <<startVars, inputVars, gpuVars>>

\* glfwSwapBuffers(window); the following glfwPollEvents starts with nothing
\* dispatched
SwapBuffers ==
    /\ pc = "swap"
    /\ evCount' = 0
    /\ pc' = "poll"
    /\ UNCHANGED <<variant, exitStatus, errlog, resizeCallbackSet, depthTest,
                   initCalls, initFailure, earlyGL, clearColor, lastEvent,
                   lastDirPress, lastResize, escPressed, scenarioPos>>
    /\ UNCHANGED <<startVars, gpuVars, frameVars>>

\* glfwPollEvents dispatches one pending key event to key_callback
DispatchKey ==
    /\ pc = "poll"
    /\ keyCallbackSet
    /\ evCount < MaxEvents
    /\ \E key \in Keys, action \in Actions :
         /\ shouldClose' = KeyCallbackClose(key, action, shouldClose)
         /\ clearColor' = KeyCallbackColor(variant, key, action, clearColor)
         /\ earlyGL' = IF KeyCallbackIssuesGL(key, action)
                       THEN IssueGL({"glClearColor"}) ELSE earlyGL
         /\ lastEvent' = [kind |-> "key", key |-> key, action |-> action,
                          size |-> <<0, 0>>]
         /\ lastDirPress' = IF key \in DirectionalKeys /\ action = "PRESS"
                            THEN key ELSE lastDirPress
         /\ scenarioPos' = IF key \in DirectionalKeys /\ action = "PRESS"
                           THEN ScenarioStep(scenarioPos, key) ELSE scenarioPos
         /\ escPressed' = (escPressed \/ (key = "ESCAPE" /\ action = "PRESS"))
    /\ evCount' = evCount + 1
    /\ UNCHANGED <<variant, pc, exitStatus, errlog, resizeCallbackSet, depthTest,
                   initCalls, initFailure, lastResize, glfwUp, terminated,
                   window, ctxCurrent, glLoaded, keyCallbackSet, viewport>>
    /\ UNCHANGED <<gpuVars, frameVars>>

\* glfwPollEvents dispatches one pending resize event to
\* framebuffer_size_callback
DispatchResize ==
    /\ pc = "poll"
    /\ resizeCallbackSet
    /\ evCount < MaxEvents
    /\ \E size \in ResizeSizes :
         /\ viewport' = FramebufferSizeCallback(size[1], size[2])
         /\ lastEvent' = [kind |-> "resize", key |-> "", action |-> "",
                          size |-> size]
         /\ lastResize' = size
    /\ earlyGL' = IssueGL({"glViewport"})
    /\ evCount' = evCount + 1
    /\ UNCHANGED <<variant, pc, exitStatus, errlog, resizeCallbackSet, depthTest,
                   initCalls, initFailure, clearColor, lastDirPress, escPressed,
                   scenarioPos, glfwUp, terminated, window, shouldClose,
                   ctxCurrent, glLoaded, keyCallbackSet>>
    /\ UNCHANGED <<gpuVars, frameVars>>

\* glfwPollEvents returns: the queue is drained
PollReturn ==
    /\ pc = "poll"
    /\ pc' = "loopCheck"
    /\ UNCHANGED <<variant, exitStatus, errlog, resizeCallbackSet, depthTest,
                   initCalls, initFailure, earlyGL>>
    /\ UNCHANGED <<startVars, inputVars, gpuVars, frameVars>>

\* The window system asks for the window to be closed (close button, window
\* manager): GLFW sets the close flag itself.  It can do so whenever it
\* handles window-system traffic, from the creation of the window on.
WindowCloseRequest ==
    /\ window.exists
    /\ pc \in {"makeCurrent", "gladLoad", "vertexShader", "fragmentShader",
               "linkProgram", "deleteShaders", "genObjects", "uploadData",
               "attribPointer", "setResizeCallback", "loopCheck", "clear",
               "draw", "swap", "poll"}
    /\ ~shouldClose
    /\ shouldClose' = TRUE
    /\ UNCHANGED <<variant, pc, exitStatus, errlog, resizeCallbackSet, depthTest,
                   initCalls, initFailure, earlyGL, glfwUp, terminated, window,
                   ctxCurrent, glLoaded, keyCallbackSet, viewport>>
    /\ UNCHANGED <<inputVars, gpuVars, frameVars>>

-----------------------------------------------------------------------------
(* Shutdown *)

\* Game: one of glDeleteVertexArrays, glDeleteBuffers, glDeleteBuffers,
\* glDeleteProgram, in source order
CleanupStep ==
    /\ pc = "cleanup"
    /\ cleanupIdx < Len(ReleaseOrder)
    /\ earlyGL' = IssueGL({"glDelete"})
    /\ released' = Append(released, ReleaseOrder[cleanupIdx + 1])
    /\ cleanupIdx' = cleanupIdx + 1
    /\ pc' = IF cleanupIdx + 1 = Len(ReleaseOrder) THEN "terminate" ELSE "cleanup"
    /\ UNCHANGED <<variant, exitStatus, errlog, resizeCallbackSet, depthTest,
                   initCalls, initFailure, shaders, buffers, created, lastDraw,
                   programInUse>>
    /\ UNCHANGED <<startVars, inputVars, frameVars>>

\* glfwTerminate(); return 0 / return EXIT_SUCCESS
Terminate ==
    /\ pc = "terminate"
    /\ glfwUp' = FALSE
    /\ terminated' = TRUE
    /\ window' = NoWindow
    /\ ctxCurrent' = FALSE
    /\ exitStatus' = ExitCode(EXIT_SUCCESS)
    /\ pc' = "exited"
    /\ UNCHANGED <<variant, errlog, resizeCallbackSet, depthTest, initCalls,
                   initFailure, earlyGL, shouldClose, glLoaded, keyCallbackSet,
                   viewport>>
    /\ UNCHANGED <<inputVars, gpuVars, frameVars>>

-----------------------------------------------------------------------------
Next ==
    \/ GlfwInit
    \/ GlEnableDepthTest
    \/ CreateWindow
    \/ MakeContextCurrent
    \/ GladLoad
    \/ CompileVertexShader
    \/ CompileFragmentShader
    \/ LinkProgram
    \/ DeleteShaders
    \/ GenObjects
    \/ UploadData
    \/ ConfigureAttrib
    \/ SetResizeCallback
    \/ LoopCheck
    \/ Clear
    \/ DrawGame
    \/ DrawSnek
    \/ SwapBuffers
    \/ DispatchKey
    \/ DispatchResize
    \/ PollReturn
    \/ WindowCloseRequest
    \/ CleanupStep
    \/ Terminate

Spec == Init /\ [][Next]_vars

-----------------------------------------------------------------------------
(* Derived views of the state *)

\* the termination state machine: Running until the loop condition fails,
\* Closing while resources are released and GLFW is shut down, Terminated
\* once main has returned from the shutdown block
TermState ==
    CASE pc \in {"cleanup", "terminate"} -> "Closing"
      [] pc = "exited" /\ initFailure = "none" -> "Terminated"
      [] pc = "exited" /\ initFailure # "none" -> "Failed"
      [] pc = "crashed" -> "Failed"
      [] OTHER -> "Running"

\* positions of main() inside the render loop
LoopPcs == {"loopCheck", "clear", "draw", "swap", "poll"}

\* the step just taken dispatched an event to a callback
DispatchStep == pc = "poll" /\ pc' = "poll" /\ evCount' = evCount + 1

\* keys key_callback has a branch for
MappedKeys == {"ESCAPE", "UP", "DOWN", "LEFT", "RIGHT"}

\* the GPU resources the loop uses, as they appear in `created`/`released`
LoopResources == {"shaderProgram", "VAO", "VBO", "EBO"}
IsLoopResource(r) == r \in LoopResources
LoopCreated == SelectSeq(created, IsLoopResource)
LoopReleased == SelectSeq(released, IsLoopResource)

Count(seq, x) == Cardinality({i \in 1..Len(seq) : seq[i] = x})
Reverse(seq) == [i \in 1..Len(seq) |-> seq[Len(seq) + 1 - i]]
IsPrefix(a, b) == Len(a) <= Len(b) /\ \A i \in 1..Len(a) : a[i] = b[i]

\* the object name a resource label stands for
Handle(r) ==
    CASE r = "shaderProgram" -> shaders.shaderProgram
      [] r = "VAO" -> buffers.VAO
      [] r = "VBO" -> buffers.VBO
      [] r = "EBO" -> buffers.EBO

-----------------------------------------------------------------------------
(* Claims *)

\* C1: in both programs, after any sequence of key events the clear colour is
\* the tuple of the most recent directional press (the GL default before the
\* first one); pressing the same key again changes nothing; and the presses
\* [Up, Down, Right] end with the Right tuple.
C1_ClearColorFollowsLastPress ==
    /\ [](clearColor = IF lastDirPress = "none" THEN DefaultClearColor
                       ELSE KeyColor(variant, lastDirPress))
    /\ [](scenarioPos = Len(ScenarioKeys) => clearColor = KeyColor(variant, "RIGHT"))
    /\ [][(DispatchStep /\ lastEvent'.kind = "key" /\ lastEvent'.action = "PRESS"
            /\ lastEvent'.key = lastDirPress)
          => clearColor' = clearColor]_vars

C1_Witness ==
    /\ scenarioPos = Len(ScenarioKeys)
    /\ lastDirPress = "RIGHT"
    /\ clearColor = <<10, 10, 0, 0>>

\* C2: once an Escape press has been dispatched the close flag stays set
\* whatever is dispatched after it, the next loop-condition check leaves the
\* loop (Running -> Closing), and no clear or draw call is issued any more.
C2_EscapeCloses ==
    /\ [](escPressed => shouldClose /\ pc \in {"poll", "loopCheck", "cleanup",
                                                "terminate", "exited"})
    /\ [][(escPressed /\ pc = "loopCheck" /\ pc' # pc) => TermState' = "Closing"]_vars
    /\ [][escPressed => (clearCount' = clearCount /\ drawCount' = drawCount
                         /\ shouldClose')]_vars

C2_Witness ==
    /\ escPressed
    /\ lastEvent.kind = "resize"
    /\ lastDirPress = "LEFT"
    /\ TermState = "Closing"

\* C3: a key event whose action is release or repeat, and a press of a key
\* without a mapping, leave the clear colour and the close flag unchanged.
C3_EdgeTriggered ==
    [][(DispatchStep /\ lastEvent'.kind = "key"
         /\ (lastEvent'.action # "PRESS" \/ lastEvent'.key \notin MappedKeys))
       => (clearColor' = clearColor /\ shouldClose' = shouldClose)]_vars

C3_Witness ==
    /\ lastEvent.kind = "key"
    /\ lastEvent.key = "ESCAPE"
    /\ lastEvent.action = "REPEAT"
    /\ ~shouldClose
    /\ lastDirPress = "DOWN"

\* C4: after any sequence of resize events the viewport has origin (0,0) and
\* the extent of the most recent event, and a resize event changes neither
\* the clear colour nor the close flag.
C4_ViewportLastResize ==
    /\ [](lastResize # <<0, 0>> =>
            viewport = <<0, 0, lastResize[1], lastResize[2]>>)
    /\ [][(DispatchStep /\ lastEvent'.kind = "resize")
          => (viewport' = <<0, 0, lastEvent'.size[1], lastEvent'.size[2]>>
              /\ clearColor' = clearColor /\ shouldClose' = shouldClose)]_vars

C4_Witness ==
    /\ lastEvent.kind = "resize"
    /\ lastResize = <<320, 240>>
    /\ viewport = <<0, 0, 320, 240>>
    /\ evCount = 2
    /\ clearCount = 2

\* C5: if the close flag is already set at the first evaluation of the loop
\* condition, no clear and no draw call is ever issued, the program goes
\* straight to shutdown, and it exits with status 0.
C5_CloseBeforeFirstFrame ==
    firstCheck = "closed" =>
        /\ clearCount = 0
        /\ drawCount = 0
        /\ pc \in {"cleanup", "terminate", "exited"}
        /\ (pc = "exited" => exitStatus = 0)

C5_Witness ==
    /\ variant = "Snek"
    /\ firstCheck = "closed"
    /\ pc = "exited"
    /\ exitStatus = 0
    /\ loopChecks = 1

\* C6: each of the three initialisation failures ends the program at once
\* with a non-zero status, after a single attempt, before the loop and with
\* no clear or draw call; status 0 only after the loop ended on a close
\* request.
C6_InitFailureTerminal ==
    /\ initFailure # "none" =>
          /\ pc = "exited"
          /\ exitStatus # 0
          /\ loopChecks = 0 /\ clearCount = 0 /\ drawCount = 0
    /\ \A c \in DOMAIN initCalls : initCalls[c] <= 1
    /\ (pc = "exited" /\ exitStatus = 0) =>
          /\ initFailure = "none"
          /\ shouldClose
          /\ loopChecks > 0
          /\ terminated

C6_Witness ==
    /\ variant = "Game"
    /\ initFailure = "WindowCreationFailed"
    /\ pc = "exited"
    /\ exitStatus = 255

\* C7: in the shader variant a failed vertex compile, fragment compile or
\* link ends the process with a non-zero status where it is detected, so
\* the loop passes the program to glUseProgram only after all three
\* succeeded.
C7_ShaderFailureFatal ==
    variant = "Game" =>
        /\ ("failed" \in {shaders.vs, shaders.fs, shaders.link}
              => pc = "exited" /\ exitStatus # 0)
        /\ (programInUse # 0
              => shaders.vs = "ok" /\ shaders.fs = "ok" /\ shaders.link = "ok")

\* C8 as stated: each loop resource is created once and released once, the
\* releases are the reverse of the creation order, and all of them precede
\* glfwTerminate.
C8_ReverseCreationOrder ==
    variant = "Game" =>
        /\ \A r \in LoopResources : Count(created, r) <= 1 /\ Count(released, r) <= 1
        /\ IsPrefix(LoopReleased, Reverse(LoopCreated))
        /\ (terminated /\ created # <<>> => Len(LoopReleased) = Len(LoopCreated))

\* C8 (amended): each loop resource is created once, its handle never
\* changes afterwards, it is released at most once and only after its
\* creation, the releases happen in the order vertex array, vertex buffer,
\* element buffer, shader program, and all four precede glfwTerminate.
C8_ReleasedOnceInSourceOrder ==
    /\ [](variant = "Game" =>
            /\ \A r \in LoopResources :
                 /\ Count(created, r) <= 1
                 /\ Count(released, r) <= Count(created, r)
                 /\ (Count(created, r) = 1 <=> Handle(r) # 0)
            /\ IsPrefix(LoopCreated, <<"shaderProgram", "VAO", "VBO", "EBO">>)
            /\ IsPrefix(LoopReleased, <<"VAO", "VBO", "EBO", "shaderProgram">>)
            /\ (LoopReleased # <<>> => pc \in {"cleanup", "terminate", "exited"})
            /\ (terminated /\ created # <<>> =>
                  \A r \in LoopResources : Count(released, r) = 1))
    /\ [][\A r \in LoopResources : Handle(r) # 0 => Handle(r)' = Handle(r)]_vars

C8_Witness ==
    /\ variant = "Game"
    /\ pc = "exited"
    /\ terminated
    /\ drawCount > 0
    /\ LoopCreated = <<"shaderProgram", "VAO", "VBO", "EBO">>
    /\ LoopReleased = <<"VAO", "VBO", "EBO", "shaderProgram">>

\* C9: the draw call of the shader variant stays inside the uploaded vertex
\* buffer: it starts at vertex 0, attribute 0 reads the vertex buffer, and
\* the buffer's size in bytes is at least vertex count times stride.
C9_DrawWithinBuffer ==
    (variant = "Game" /\ drawCount > 0) =>
        /\ lastDraw.first = 0
        /\ buffers.attrib0.enabled
        /\ buffers.attrib0.buffer = buffers.VBO
        /\ buffers.attrib0.offset = 0
        /\ buffers.vboBytes >= lastDraw.count * buffers.attrib0.stride

C9_Witness ==
    /\ variant = "Game"
    /\ drawCount = 2
    /\ lastDraw.count = 9
    /\ buffers.attrib0.stride = 12
    /\ buffers.vboBytes = 108

\* C10: in both programs no GL command is issued before the window's
\* context is current and the GL entry points are loaded, and the loop is
\* entered only after GLFW is initialised, the window exists, its context
\* is current and the entry points are loaded.
C10_NoEarlyGL ==
    /\ earlyGL = {}
    /\ (ctxCurrent => window.exists /\ glfwUp)
    /\ (glLoaded /\ ~terminated => ctxCurrent)
    /\ (pc \in LoopPcs => glfwUp /\ window.exists /\ ctxCurrent /\ glLoaded)

====
